---- MODULE Spec2Model ----
(***************************************************************************)
(* Model of getBalances.js: an hourly job that lists the token accounts of *)
(* a wallet, prices the held mints in batches, classifies each market cap  *)
(* into a tranche, notifies tranche changes against the caps persisted by  *)
(* the previous run, and overwrites the persisted caps.                    *)
(*                                                                         *)
(* Node runs one callback at a time, so everything between two `await`s is *)
(* one atomic action.  A run of getAllTokenBalances therefore has three    *)
(* kinds of steps: the call up to the first await (line 27), the           *)
(* continuation after the holdings answer (lines 32-55), and one           *)
(* continuation per price batch (lines 55-87); trackMarketCapChanges holds *)
(* no await and runs inside the last continuation.                         *)
(***************************************************************************)
EXTENDS Integers, Sequences, FiniteSets, TLC

\* ------------------------------------------------------------------ bounds
\* Invocations of getAllTokenBalances: the initial run (line 185) and the
\* cron ticks (line 179) after it.
MaxCycles == 2
\* Longest list of token accounts the holdings answer may carry.
MaxAccounts == 2
\* Size of a price batch; stands for the 99 of line 46.
BatchSize == 1
\* The classifier's inputs are the caps k * 100000 + d, k <= MaxCapSteps.
MaxCapSteps == 520

\* --------------------------------------------------------------- constants
FIXED_SUPPLY == 1000000000

\* Activations of getAllTokenBalances that may be in flight together.
Slots == {1, 2}
Mints == {"A", "B"}
\* uiAmount of a token account: zero or positive.
Amounts == {0, 1}
\* Price strings of the price answer, in millionths: caps 50000 (below the
\* first threshold), 150000 and 450000 (both in the next tranche).
Prices == {50, 150, 450}
\* A mint the price answer carries no (or a null) price for.
NoPrice == -1

VARIABLES
    pc,                 \* slot -> "idle" | "awaitHoldings" | "awaitPrices"
    mintAddresses,      \* slot -> line 32
    batches,            \* slot -> line 46
    batchIndex,         \* slot -> the batch whose prices are awaited (line 53)
    responses,          \* slot -> the answers of the price requests so far
    bondedCoins,        \* slot -> line 48
    unbondedCoins,      \* slot -> line 49
    currentMarketCaps,  \* slot -> line 50, an object: <<key, value>> in insertion order
    started,            \* invocations of getAllTokenBalances so far
    alive,              \* the node process is running
    last,               \* the invocation that returned last: its exit and locals
    file,               \* tmp_data_previous.json
    csvBonded,          \* tmp_data_bonded.csv
    csvUnbonded,        \* tmp_data_unbonded.csv
    marketCap,          \* argument of a stand-alone getMarketCapTranche call
    tranche             \* its result

locals == <<mintAddresses, batches, batchIndex, responses,
            bondedCoins, unbondedCoins, currentMarketCaps>>
runVars == <<pc, locals, started, alive, last>>
fsVars == <<file, csvBonded, csvUnbonded>>
pureVars == <<marketCap, tranche>>
vars == <<runVars, fsVars, pureVars>>

\* ------------------------------------------------------------ JS objects
\* An object with string keys is the sequence of its <<key, value>> members
\* in insertion order, which is the order of for-in and of JSON.stringify.
ObjKeys(o) == {o[i][1] : i \in DOMAIN o}
ObjHas(o, k) == k \in ObjKeys(o)
ObjGet(o, k) == o[CHOOSE i \in DOMAIN o : o[i][1] = k][2]
ObjSet(o, k, v) ==
    IF ObjHas(o, k)
    THEN [i \in DOMAIN o |-> IF o[i][1] = k THEN <<k, v>> ELSE o[i]]
    ELSE Append(o, <<k, v>>)

Min(a, b) == IF a < b THEN a ELSE b

\* --------------------------------------------------------- pure functions
\* chunkArray(array, size), lines 104-110.
chunkArray(array, size) ==
    [k \in 1..((Len(array) + size - 1) \div size) |->
        SubSeq(array, (k - 1) * size + 1, Min(k * size, Len(array)))]

\* getMarketCapTranche with the first comparison inclusive.
getMarketCapTranche_inclusive(cap) ==
    IF cap <= 100000 THEN "unbonded-bonded"
    ELSE IF cap < 500000 THEN "0-100k"
    ELSE IF cap < 1000000 THEN "100k-500k"
    ELSE IF cap < 3000000 THEN "500k-1M"
    ELSE IF cap < 10000000 THEN "1M-3M"
    ELSE IF cap < 20000000 THEN "3M-10M"
    ELSE "10M-20M"

\* getMarketCapTranche(marketCap), lines 130-138.
getMarketCapTranche(cap) ==
    IF cap < 100000 THEN "unbonded-bonded"
    ELSE IF cap < 500000 THEN "0-100k"
    ELSE IF cap < 1000000 THEN "100k-500k"
    ELSE IF cap < 3000000 THEN "500k-1M"
    ELSE IF cap < 10000000 THEN "1M-3M"
    ELSE IF cap < 20000000 THEN "3M-10M"
    ELSE "10M-20M"

\* parseFloat(priceData) * 1e9, line 61, for a price string of p millionths.
MarketCapOf(p) == p * (FIXED_SUPPLY \div 1000000)

\* prices[mint], line 59: undefined for a key the object lacks, null or a
\* price string otherwise; NoPrice stands for both falsy values.
PriceOf(prices, mint) ==
    IF mint \in DOMAIN prices.members THEN prices.members[mint] ELSE NoPrice

\* The object {} and the value undefined, as fetchTokenPrices may return them.
EmptyObject == [defined |-> TRUE, members |-> [m \in {} |-> NoPrice]]
Undefined == [defined |-> FALSE, members |-> [m \in {} |-> NoPrice]]

\* fetchTokenPrices without the fallback of line 99.
fetchTokenPrices_noFallback(response) ==
    IF response.kind = "data"
    THEN [defined |-> TRUE, members |-> response.data]
    ELSE Undefined

\* fetchTokenPrices(mintList), lines 93-101: response.data.data (undefined
\* when the answer's body has no data member), or {} when the request is
\* rejected.
fetchTokenPrices(response) ==
    IF response.kind = "rejected" THEN EmptyObject
    ELSE IF response.kind = "data"
         THEN [defined |-> TRUE, members |-> response.data]
         ELSE Undefined

\* batch.forEach, lines 58-67, from the i-th mint of the batch on; st holds
\* bondedCoins, unbondedCoins and currentMarketCaps.
RECURSIVE classifyBatch(_, _, _, _)
classifyBatch(batch, prices, i, st) ==
    IF i > Len(batch) THEN st
    ELSE LET mint == batch[i]
             priceData == PriceOf(prices, mint)
         IN  IF priceData # NoPrice
             THEN classifyBatch(batch, prices, i + 1,
                    [bonded |-> Append(st.bonded,
                                   [mint |-> mint, marketCap |-> MarketCapOf(priceData)]),
                     unbonded |-> st.unbonded,
                     caps |-> ObjSet(st.caps, mint, MarketCapOf(priceData))])
             ELSE classifyBatch(batch, prices, i + 1,
                    [bonded |-> st.bonded,
                     unbonded |-> Append(st.unbonded, [mint |-> mint]),
                     caps |-> st.caps])

\* bondedCoins.sort((a, b) => b.marketCap - a.marketCap), line 71: stable,
\* descending by market cap.
RECURSIVE insertDesc(_, _)
insertDesc(sorted, coin) ==
    IF sorted = <<>> THEN <<coin>>
    ELSE IF Head(sorted).marketCap >= coin.marketCap
         THEN <<Head(sorted)>> \o insertDesc(Tail(sorted), coin)
         ELSE <<coin>> \o sorted
RECURSIVE sortDesc(_)
sortDesc(coins) ==
    IF coins = <<>> THEN <<>>
    ELSE insertDesc(sortDesc(SubSeq(coins, 1, Len(coins) - 1)), coins[Len(coins)])

\* saveToCSV(data, fileName, isBonded), lines 113-127: the file's content.
saveToCSV(data, isBonded) ==
    [headers |-> IF isBonded THEN "Mint,MarketCap" ELSE "Mint",
     rows |-> [i \in DOMAIN data |->
                 IF isBonded THEN <<data[i].mint, data[i].marketCap>>
                 ELSE <<data[i].mint>>]]
NoCsv == [headers |-> "", rows |-> <<>>]

\* ------------------------------------------------- the persisted snapshot
\* tmp_data_previous.json: absent, unparsable, or the text of an object.
NoFile == [exists |-> FALSE, json |-> FALSE, members |-> <<>>]
Garbage == [exists |-> TRUE, json |-> FALSE, members |-> <<>>]
\* JSON.stringify(currentMarketCaps, null, 2), line 169: the members in
\* insertion order, each finite number as its shortest exact numeral.
JSONstringify(o) == [exists |-> TRUE, json |-> TRUE, members |-> o]
\* A variant of JSONparse that reads an unparsable file as an empty mapping.
JSONparse_lenient(f) ==
    [threw |-> FALSE, value |-> IF f.json THEN f.members ELSE <<>>]
\* JSON.parse(fs.readFileSync(...)), line 146: throws on an unparsable text.
JSONparse(f) == [threw |-> ~f.json, value |-> IF f.json THEN f.members ELSE <<>>]

\* notifyTelegram(mint, tranche, marketCap), lines 173-176: the message.
notifyTelegram(mint, tr, cap) == [mint |-> mint, tranche |-> tr, marketCap |-> cap]

\* compareCap labelling a new token with the tranche of its cap.
compareCap_newByTranche(mint, currentCap, previous) ==
    IF ~ObjHas(previous, mint)
    THEN <<notifyTelegram(mint, getMarketCapTranche(currentCap), currentCap)>>
    ELSE IF getMarketCapTranche(currentCap) # getMarketCapTranche(ObjGet(previous, mint))
         THEN <<notifyTelegram(mint, getMarketCapTranche(currentCap), currentCap)>>
         ELSE <<>>

\* compareCap comparing the caps where the code compares their tranches.
compareCap_byCap(mint, currentCap, previous) ==
    IF ~ObjHas(previous, mint)
    THEN <<notifyTelegram(mint, "unbonded-bonded", currentCap)>>
    ELSE IF currentCap # ObjGet(previous, mint)
         THEN <<notifyTelegram(mint, getMarketCapTranche(currentCap), currentCap)>>
         ELSE <<>>

\* compareCap comparing the current tranche with the previous cap, which
\* never equals it.
compareCap_trancheVsCap(mint, currentCap, previous) ==
    IF ~ObjHas(previous, mint)
    THEN <<notifyTelegram(mint, "unbonded-bonded", currentCap)>>
    ELSE <<notifyTelegram(mint, getMarketCapTranche(currentCap), currentCap)>>

\* compareCap staying silent about a token the loaded mapping lacks.
compareCap_silentNew(mint, currentCap, previous) ==
    IF ~ObjHas(previous, mint)
    THEN <<>>
    ELSE IF getMarketCapTranche(currentCap) # getMarketCapTranche(ObjGet(previous, mint))
         THEN <<notifyTelegram(mint, getMarketCapTranche(currentCap), currentCap)>>
         ELSE <<>>

\* The body of the for-in loop, lines 151-165, for one member of
\* currentMarketCaps: the notifications it sends.
compareCap(mint, currentCap, previous) ==
    IF ~ObjHas(previous, mint)
    THEN <<notifyTelegram(mint, "unbonded-bonded", currentCap)>>
    ELSE IF getMarketCapTranche(currentCap) # getMarketCapTranche(ObjGet(previous, mint))
         THEN <<notifyTelegram(mint, getMarketCapTranche(currentCap), currentCap)>>
         ELSE <<>>

\* compareCaps reporting, before the loop, the members of previousData that
\* currentMarketCaps lacks.
RECURSIVE compareCaps_reportDropped(_, _, _)
compareCaps_reportDropped(current, previous, i) ==
    IF i > Len(current) /\ i > Len(previous) THEN <<>>
    ELSE (IF i <= Len(previous) /\ ~ObjHas(current, previous[i][1])
          THEN <<notifyTelegram(previous[i][1], "unbonded-bonded", previous[i][2])>>
          ELSE <<>>)
         \o (IF i <= Len(current)
             THEN compareCap(current[i][1], current[i][2], previous)
             ELSE <<>>)
         \o compareCaps_reportDropped(current, previous, i + 1)

\* The for-in loop of trackMarketCapChanges, lines 150-166, from the i-th
\* member of currentMarketCaps on: the notifications it sends, in order.
RECURSIVE compareCaps(_, _, _)
compareCaps(current, previous, i) ==
    IF i > Len(current) THEN <<>>
    ELSE compareCap(current[i][1], current[i][2], previous)
         \o compareCaps(current, previous, i + 1)

\* The members of previous that current lacks, after those of current.
RECURSIVE mergeObjects(_, _)
mergeObjects(current, previous) ==
    IF previous = <<>> THEN current
    ELSE mergeObjects(IF ObjHas(current, Head(previous)[1]) THEN current
                      ELSE Append(current, Head(previous)),
                      Tail(previous))

\* trackMarketCapChanges writing the current caps over the loaded ones
\* instead of replacing them.
trackMarketCapChanges_merge(current, f) ==
    LET loaded == IF f.exists THEN JSONparse(f) ELSE [threw |-> FALSE, value |-> <<>>]
    IN  IF loaded.threw
        THEN [threw |-> TRUE, previousData |-> <<>>, sent |-> <<>>, file |-> f]
        ELSE [threw |-> FALSE,
              previousData |-> loaded.value,
              sent |-> compareCaps(current, loaded.value, 1),
              file |-> JSONstringify(mergeObjects(current, loaded.value))]

\* trackMarketCapChanges whose first notifyTelegram call throws out of the
\* loop, as an awaited delivery that fails would.
trackMarketCapChanges_sendThrows(current, f) ==
    LET loaded == IF f.exists THEN JSONparse(f) ELSE [threw |-> FALSE, value |-> <<>>]
        events == compareCaps(current, loaded.value, 1)
    IN  IF loaded.threw
        THEN [threw |-> TRUE, previousData |-> <<>>, sent |-> <<>>, file |-> f]
        ELSE IF events # <<>>
        THEN [threw |-> TRUE, previousData |-> loaded.value,
              sent |-> <<Head(events)>>, file |-> f]
        ELSE [threw |-> FALSE, previousData |-> loaded.value, sent |-> <<>>,
              file |-> JSONstringify(current)]

\* trackMarketCapChanges that never reads the snapshot file and compares
\* with an empty mapping.
trackMarketCapChanges_noBaseline(current, f) ==
    [threw |-> FALSE, previousData |-> <<>>,
     sent |-> compareCaps(current, <<>>, 1), file |-> JSONstringify(current)]

\* trackMarketCapChanges comparing with the mapping the invocation that
\* saved last had loaded, as if previousData were read once and kept, where
\* the code reads the file in the call itself.
trackMarketCapChanges_staleBaseline(current, f) ==
    LET loaded == IF f.exists THEN JSONparse(f) ELSE [threw |-> FALSE, value |-> <<>>]
        kept == IF last.outcome = "saved" THEN last.previousData ELSE loaded.value
    IN  IF loaded.threw
        THEN [threw |-> TRUE, previousData |-> <<>>, sent |-> <<>>, file |-> f]
        ELSE [threw |-> FALSE,
              previousData |-> kept,
              sent |-> compareCaps(current, kept, 1),
              file |-> JSONstringify(current)]

\* trackMarketCapChanges(currentMarketCaps), lines 141-170, on the snapshot
\* file f: whether it threw, the previousData it loaded, the notifications
\* it sent and the file it leaves.
trackMarketCapChanges(current, f) ==
    LET loaded == IF f.exists THEN JSONparse(f) ELSE [threw |-> FALSE, value |-> <<>>]
    IN  IF loaded.threw
        THEN [threw |-> TRUE, previousData |-> <<>>, sent |-> <<>>, file |-> f]
        ELSE [threw |-> FALSE,
              previousData |-> loaded.value,
              sent |-> compareCaps(current, loaded.value, 1),
              file |-> JSONstringify(current)]

\* ------------------------------------------------------------ the inputs
\* A token account of the holdings answer (lines 33-36); several accounts
\* of one owner may hold the same mint.
Accounts == [mint : Mints, uiAmount : Amounts]
RECURSIVE SeqsUpTo(_, _)
SeqsUpTo(S, n) ==
    IF n = 0 THEN {<<>>}
    ELSE LET shorter == SeqsUpTo(S, n - 1)
         IN  shorter \cup {Append(q, x) : q \in {t \in shorter : Len(t) = n - 1}, x \in S}
AccountLists == SeqsUpTo(Accounts, MaxAccounts)
SeqToSet(q) == {q[i] : i \in DOMAIN q}
\* The answers of the price request for a batch: a body whose data member
\* gives each mint a price string or none, a body without a data member, or
\* a rejected request.
PriceResponses(batch) ==
    {[kind |-> "data", data |-> d] : d \in [SeqToSet(batch) -> Prices \cup {NoPrice}]}
        \cup {[kind |-> k, data |-> [m \in {} |-> NoPrice]] : k \in {"nodata", "rejected"}}
\* The inputs of the stand-alone classifier: every multiple of 100000 up to
\* MaxCapSteps * 100000, with its two neighbours.
CapInputs == {c \in {k * 100000 + d : k \in 0..MaxCapSteps, d \in {-1, 0, 1}} : c >= 0}

\* ----------------------------------------------------------------- Init
\* What is kept of the invocation that returned last: the exit it took, its
\* batches and the answers to their price requests, its currentMarketCaps,
\* and what its trackMarketCapChanges loaded and sent.
\* failed holds the positions in sent of the messages whose delivery the
\* bot later reported as failed (the promise of line 175 rejected).
\* before is the mapping that the save before the last one replaced: the
\* previousData of the invocation that saved last before this one.
Returned(exit, bs, answers, caps, previous, notified) ==
    [outcome |-> exit, batches |-> bs, responses |-> answers,
     currentMarketCaps |-> caps, previousData |-> previous, sent |-> notified,
     failed |-> {},
     before |-> IF last.outcome = "saved" THEN last.previousData ELSE last.before]
NoneReturned(exit) == Returned(exit, <<>>, <<>>, <<>>, <<>>, <<>>)
NoRun ==
    [outcome |-> "none", batches |-> <<>>, responses |-> <<>>,
     currentMarketCaps |-> <<>>, previousData |-> <<>>, sent |-> <<>>,
     failed |-> {}, before |-> <<>>]

\* The process has started and no invocation has been made yet.
InitRun ==
    /\ pc = [r \in Slots |-> "idle"]
    /\ mintAddresses = [r \in Slots |-> <<>>]
    /\ batches = [r \in Slots |-> <<>>]
    /\ batchIndex = [r \in Slots |-> 0]
    /\ responses = [r \in Slots |-> <<>>]
    /\ bondedCoins = [r \in Slots |-> <<>>]
    /\ unbondedCoins = [r \in Slots |-> <<>>]
    /\ currentMarketCaps = [r \in Slots |-> <<>>]
    /\ started = 0
    /\ alive = TRUE
    /\ last = NoRun
    /\ csvBonded = NoCsv
    /\ csvUnbonded = NoCsv

InitProgram ==
    /\ InitRun
    /\ file \in {NoFile, Garbage}

Init ==
    /\ InitProgram
    /\ marketCap = 0
    /\ tranche = ""

\* -------------------------------------------------------------- actions
\* getAllTokenBalances returns in slot r: its locals are gone.
Return(r) ==
    /\ pc' = [pc EXCEPT ![r] = "idle"]
    /\ mintAddresses' = [mintAddresses EXCEPT ![r] = <<>>]
    /\ batches' = [batches EXCEPT ![r] = <<>>]
    /\ batchIndex' = [batchIndex EXCEPT ![r] = 0]
    /\ responses' = [responses EXCEPT ![r] = <<>>]
    /\ bondedCoins' = [bondedCoins EXCEPT ![r] = <<>>]
    /\ unbondedCoins' = [unbondedCoins EXCEPT ![r] = <<>>]
    /\ currentMarketCaps' = [currentMarketCaps EXCEPT ![r] = <<>>]

\* A call of getAllTokenBalances in slot r, up to the await of line 27.
Call(r) ==
    /\ alive
    /\ pc[r] = "idle"
    /\ \A q \in Slots : q < r => pc[q] # "idle"
    /\ started < MaxCycles
    /\ started' = started + 1
    /\ pc' = [pc EXCEPT ![r] = "awaitHoldings"]
    /\ UNCHANGED <<locals, alive, last, fsVars, pureVars>>

\* Line 185: the initial run.
InitialRun(r) ==
    /\ started = 0
    /\ Call(r)

\* Whether the cron callback of lines 179-182 may call getAllTokenBalances
\* now: the script has run to its end; nothing else is asked.
cronMayStart == alive /\ started >= 1

\* Lines 179-182: a cron tick.
CronTick(r) ==
    /\ cronMayStart
    /\ Call(r)

\* HoldingsRejected going on to change detection with an empty mapping.
HoldingsRejected_saveEmpty(r) ==
    /\ alive
    /\ pc[r] = "awaitHoldings"
    /\ Return(r)
    /\ file' = JSONstringify(<<>>)
    /\ last' = NoneReturned("holdingsError")
    /\ UNCHANGED <<started, alive, csvBonded, csvUnbonded, pureVars>>

\* HoldingsRejected without the catch of lines 88-90: the rejection leaves
\* the async function and ends the process.
HoldingsRejected_uncaught(r) ==
    /\ alive
    /\ pc[r] = "awaitHoldings"
    /\ Return(r)
    /\ alive' = FALSE
    /\ last' = NoneReturned("holdingsError")
    /\ UNCHANGED <<started, fsVars, pureVars>>

\* Line 27 rejects: the catch of lines 88-90.
HoldingsRejected(r) ==
    /\ alive
    /\ pc[r] = "awaitHoldings"
    /\ Return(r)
    /\ last' = NoneReturned("holdingsError")
    /\ UNCHANGED <<started, alive, fsVars, pureVars>>

\* Lines 33-42: the mints of the accounts with a positive balance, in order.
RECURSIVE heldMints(_)
heldMints(accounts) ==
    IF accounts = <<>> THEN <<>>
    ELSE (IF Head(accounts).uiAmount > 0 THEN <<Head(accounts).mint>> ELSE <<>>)
         \o heldMints(Tail(accounts))

\* Line 27 resolves: lines 32-55 up to the first price request, or the
\* else branch of lines 85-87.
HoldingsResolved(r, accounts) ==
    /\ alive
    /\ pc[r] = "awaitHoldings"
    /\ LET mints == heldMints(accounts)
       IN  IF Len(mints) > 0
           THEN /\ mintAddresses' = [mintAddresses EXCEPT ![r] = mints]
                /\ batches' = [batches EXCEPT ![r] = chunkArray(mints, BatchSize)]
                /\ batchIndex' = [batchIndex EXCEPT ![r] = 1]
                /\ pc' = [pc EXCEPT ![r] = "awaitPrices"]
                /\ UNCHANGED <<responses, bondedCoins, unbondedCoins,
                               currentMarketCaps, last>>
           ELSE /\ Return(r)
                /\ last' = NoneReturned("noTokens")
    /\ UNCHANGED <<started, alive, fsVars, pureVars>>

\* lastBatch leaving the loop after the first batch.
lastBatch_first(r, i) == i >= 1

\* The loop condition of line 53 after batch i of slot r: whether it was the
\* last one.
lastBatch(r, i) == i >= Len(batches[r])

\* What may go wrong in lines 70-84 besides an unreadable snapshot: a
\* writeFileSync that throws (line 125 for either CSV file, line 169), or
\* the process being killed while line 169 writes.
Faults == {"none", "csvBonded", "csvUnbonded", "snapshotWrite", "killed"}
\* What a writeFileSync that did not complete may leave of a file that held
\* old: the old content (the file could not be opened) or a truncated one.
Interrupted(old, truncated) == {old, truncated}

\* Line 55 returns for the awaited batch: lines 58-67, then either the next
\* price request or lines 70-84; line 59 throws a TypeError when prices is
\* undefined; every throw is caught by lines 88-90.
PricesReturned(r, response, fault) ==
    /\ alive
    /\ pc[r] = "awaitPrices"
    /\ LET i == batchIndex[r]
           prices == fetchTokenPrices(response)
           st == classifyBatch(batches[r][i], prices, 1,
                               [bonded |-> bondedCoins[r],
                                unbonded |-> unbondedCoins[r],
                                caps |-> currentMarketCaps[r]])
           answers == Append(responses[r], response)
           sorted == sortDesc(st.bonded)
           tracked == trackMarketCapChanges(st.caps, file)
       IN  IF ~prices.defined
           THEN /\ fault = "none"
                /\ Return(r)
                /\ last' = Returned("pricesError", batches[r], answers,
                                    currentMarketCaps[r], <<>>, <<>>)
                /\ UNCHANGED <<alive, fsVars>>
           ELSE IF ~lastBatch(r, i)
           THEN /\ fault = "none"
                /\ batchIndex' = [batchIndex EXCEPT ![r] = i + 1]
                /\ responses' = [responses EXCEPT ![r] = answers]
                /\ bondedCoins' = [bondedCoins EXCEPT ![r] = st.bonded]
                /\ unbondedCoins' = [unbondedCoins EXCEPT ![r] = st.unbonded]
                /\ currentMarketCaps' = [currentMarketCaps EXCEPT ![r] = st.caps]
                /\ UNCHANGED <<pc, mintAddresses, batches, alive, last, fsVars>>
           ELSE IF fault = "csvBonded"
           THEN \* line 74 throws
                /\ Return(r)
                /\ csvBonded' \in Interrupted(csvBonded, NoCsv)
                /\ last' = NoneReturned("csvError")
                /\ UNCHANGED <<alive, csvUnbonded, file>>
           ELSE IF fault = "csvUnbonded"
           THEN \* line 75 throws
                /\ Return(r)
                /\ csvBonded' = saveToCSV(sorted, TRUE)
                /\ csvUnbonded' \in Interrupted(csvUnbonded, NoCsv)
                /\ last' = NoneReturned("csvError")
                /\ UNCHANGED <<alive, file>>
           ELSE /\ Return(r)
                /\ csvBonded' = saveToCSV(sorted, TRUE)
                /\ csvUnbonded' = saveToCSV(st.unbonded, FALSE)
                /\ IF tracked.threw
                   THEN \* line 146 throws
                        /\ fault = "none"
                        /\ file' = tracked.file
                        /\ last' = Returned("snapshotError", batches[r], answers,
                                            st.caps, tracked.previousData, tracked.sent)
                        /\ UNCHANGED alive
                   ELSE IF fault = "snapshotWrite"
                   THEN \* line 169 throws
                        /\ file' \in Interrupted(file, Garbage)
                        /\ last' = Returned("saveError", <<>>, <<>>, st.caps,
                                            tracked.previousData, tracked.sent)
                        /\ UNCHANGED alive
                   ELSE IF fault = "killed"
                   THEN \* the process dies inside line 169, the file
                        \* truncated or holding a prefix of the new text
                        /\ file' = Garbage
                        /\ alive' = FALSE
                        /\ last' = Returned("killed", batches[r], answers,
                                            st.caps, tracked.previousData, tracked.sent)
                   ELSE /\ file' = tracked.file
                        /\ last' = Returned("saved", batches[r], answers, st.caps,
                                            tracked.previousData, tracked.sent)
                        /\ UNCHANGED alive
    /\ UNCHANGED <<started, pureVars>>

PricesAnswered(r) ==
    /\ pc[r] = "awaitPrices"
    /\ \E response \in PriceResponses(batches[r][batchIndex[r]]) :
          \E fault \in Faults : PricesReturned(r, response, fault)

\* The promise bot.sendMessage returned for the i-th message of the last
\* run (line 175) rejects; nothing awaits or catches it.
NotifyFails(i) ==
    /\ alive
    /\ i \in DOMAIN last.sent
    /\ i \notin last.failed
    /\ last' = [last EXCEPT !.failed = @ \cup {i}]
    /\ UNCHANGED <<pc, locals, started, alive, fsVars, pureVars>>

Next ==
    \/ \E r \in Slots : InitialRun(r)
    \/ \E r \in Slots : CronTick(r)
    \/ \E r \in Slots : HoldingsRejected(r)
    \/ \E r \in Slots : \E accounts \in AccountLists : HoldingsResolved(r, accounts)
    \/ \E r \in Slots : PricesAnswered(r)
    \/ \E i \in 1..Cardinality(Mints) : NotifyFails(i)

Spec == Init /\ [][Next]_vars

\* ------------------------------------- a process started over a snapshot
\* The process starts with the snapshot file an earlier process left: the
\* mapping some run of it saved at line 169, here token A at any cap.
RestartSnapshots == {JSONstringify(<<<<"A", MarketCapOf(p)>>>>) : p \in Prices}
InitRestart ==
    /\ InitRun
    /\ file \in RestartSnapshots
    /\ marketCap = 0
    /\ tranche = ""
SpecRestart == InitRestart /\ [][Next]_vars

\* ------------------------------------------- the classifier on its own
\* A call of getMarketCapTranche on any cap of CapInputs.
InitTranche ==
    /\ InitProgram
    /\ marketCap \in CapInputs
    /\ tranche = ""

Classify ==
    /\ tranche = ""
    /\ tranche' = getMarketCapTranche(marketCap)
    /\ UNCHANGED <<marketCap, runVars, fsVars>>

NextTranche == Classify

SpecTranche == InitTranche /\ [][NextTranche]_vars

\* =================================================================== claims

\* The brackets in ascending order, each with its range [lo, hi); the last
\* one has no upper end.
Brackets ==
    << [label |-> "unbonded-bonded", lo |-> 0,        hi |-> 100000,   open |-> FALSE],
       [label |-> "0-100k",          lo |-> 100000,   hi |-> 500000,   open |-> FALSE],
       [label |-> "100k-500k",       lo |-> 500000,   hi |-> 1000000,  open |-> FALSE],
       [label |-> "500k-1M",         lo |-> 1000000,  hi |-> 3000000,  open |-> FALSE],
       [label |-> "1M-3M",           lo |-> 3000000,  hi |-> 10000000, open |-> FALSE],
       [label |-> "3M-10M",          lo |-> 10000000, hi |-> 20000000, open |-> FALSE],
       [label |-> "10M-20M",         lo |-> 20000000, hi |-> 20000000, open |-> TRUE] >>
InBracket(i, cap) == Brackets[i].lo <= cap /\ (Brackets[i].open \/ cap < Brackets[i].hi)
Rank(label) == CHOOSE i \in DOMAIN Brackets : Brackets[i].label = label

\* C1: getMarketCapTranche returns, for every cap >= 0, the label of the one
\* bracket whose range [lo, hi) holds the cap (every cap >= 20,000,000 gets
\* "10M-20M"); each threshold belongs to the upper bracket, and no smaller
\* cap gets a higher bracket.
C1_TrancheTable ==
    tranche # "" =>
        /\ \E i \in DOMAIN Brackets :
              /\ InBracket(i, marketCap)
              /\ tranche = Brackets[i].label
              /\ \A j \in DOMAIN Brackets : InBracket(j, marketCap) => j = i
        /\ \A i \in DOMAIN Brackets : marketCap = Brackets[i].lo => tranche = Brackets[i].label
        /\ \A c \in CapInputs :
              c <= marketCap => Rank(getMarketCapTranche(c)) <= Rank(tranche)
\* A threshold has been classified into the upper bracket.
C1_Witness == marketCap = 100000 /\ tranche = "0-100k"

\* ------------------------------------------------ the run that returned last
\* It reached trackMarketCapChanges, which returned normally.
Tracked == last.outcome = "saved"
\* The notifications it sent that name the mint.
SentFor(mint) == {i \in DOMAIN last.sent : last.sent[i].mint = mint}
\* Two objects hold the same keys with the same values.
SameMapping(o1, o2) ==
    /\ ObjKeys(o1) = ObjKeys(o2)
    /\ \A k \in ObjKeys(o1) : ObjGet(o1, k) = ObjGet(o2, k)

\* C2: a token that is a key of the current mapping and not of the loaded
\* previous mapping (empty when no snapshot file exists) gets exactly one
\* notification, labelled "unbonded-bonded" and carrying its current cap,
\* whatever the tranche of that cap.
C2_NewToken ==
    Tracked =>
        \A mint \in ObjKeys(last.currentMarketCaps) \ ObjKeys(last.previousData) :
            /\ Cardinality(SentFor(mint)) = 1
            /\ \A i \in SentFor(mint) :
                  last.sent[i] = [mint |-> mint, tranche |-> "unbonded-bonded",
                                  marketCap |-> ObjGet(last.currentMarketCaps, mint)]
\* The first run, without a snapshot file, has notified a new token whose
\* cap lies in another tranche than "unbonded-bonded".
C2_Witness ==
    /\ started = 1
    /\ Tracked
    /\ last.previousData = <<>>
    /\ \E i \in DOMAIN last.sent :
          /\ last.sent[i].tranche = "unbonded-bonded"
          /\ last.sent[i].marketCap = 150000
          /\ ObjHas(last.currentMarketCaps, last.sent[i].mint)

\* C3: a token that is a key of both mappings gets a notification exactly
\* when the tranche of its current cap differs from the tranche of its
\* previous cap: then one, carrying the current tranche and the current cap;
\* otherwise none.
C3_TrancheChange ==
    Tracked =>
        \A mint \in ObjKeys(last.currentMarketCaps) \cap ObjKeys(last.previousData) :
            LET currentCap == ObjGet(last.currentMarketCaps, mint)
                previousCap == ObjGet(last.previousData, mint)
            IN  IF getMarketCapTranche(currentCap) # getMarketCapTranche(previousCap)
                THEN /\ Cardinality(SentFor(mint)) = 1
                     /\ \A i \in SentFor(mint) :
                           last.sent[i] = [mint |-> mint,
                                           tranche |-> getMarketCapTranche(currentCap),
                                           marketCap |-> currentCap]
                ELSE SentFor(mint) = {}
\* One token moved down a tranche and was notified, another changed its cap
\* inside its tranche and was not.
C3_Witness ==
    /\ Tracked
    /\ \E m1, m2 \in ObjKeys(last.currentMarketCaps) \cap ObjKeys(last.previousData) :
          /\ ObjGet(last.previousData, m1) = 150000
          /\ ObjGet(last.currentMarketCaps, m1) = 50000
          /\ SentFor(m1) # {}
          /\ ObjGet(last.previousData, m2) = 150000
          /\ ObjGet(last.currentMarketCaps, m2) = 450000
          /\ SentFor(m2) = {}

\* A slot's run returns after its last price answer.
RunReturns(r) == pc[r] = "awaitPrices" /\ pc'[r] = "idle"
\* The mapping a load of the snapshot file yields; the file is readable.
Persisted == IF file.exists THEN file.members ELSE <<>>
Readable == file.exists => file.json

\* C4: a run whose current mapping equals the persisted mapping (same
\* tokens, same caps) sends no notification.
C4_Idempotent ==
    [][\A r \in Slots :
          (/\ RunReturns(r)
           /\ last'.outcome # "pricesError"
           /\ Readable
           /\ SameMapping(Persisted, last'.currentMarketCaps))
          => (last'.outcome \in {"saved", "csvError", "saveError", "killed"}
              /\ last'.sent = <<>>)]_vars
\* The second run observed the non-empty mapping the first one persisted and
\* sent nothing.
C4_Witness ==
    /\ started = 2
    /\ Tracked
    /\ last.currentMarketCaps # <<>>
    /\ SameMapping(last.previousData, last.currentMarketCaps)
    /\ last.sent = <<>>

\* C5: every notification of a run names a key of that run's current
\* mapping; a key of the previous mapping alone gets none.
C5_OnlyCurrent ==
    /\ \A i \in DOMAIN last.sent : ObjHas(last.currentMarketCaps, last.sent[i].mint)
    /\ \A mint \in ObjKeys(last.previousData) \ ObjKeys(last.currentMarketCaps) :
          SentFor(mint) = {}
\* A run dropped a token of the previous mapping while notifying another.
C5_Witness ==
    /\ Tracked
    /\ ObjKeys(last.previousData) \ ObjKeys(last.currentMarketCaps) # {}
    /\ last.sent # <<>>

\* C6: after a run's save the snapshot file is the text of that run's
\* current mapping and loads back as it: a key of the old snapshot that the
\* current mapping lacks is gone, and every key carries its current cap.
C6_Overwrite ==
    Tracked =>
        /\ file = JSONstringify(last.currentMarketCaps)
        /\ ~JSONparse(file).threw
        /\ JSONparse(file).value = last.currentMarketCaps
        /\ \A mint \in ObjKeys(last.previousData) \ ObjKeys(last.currentMarketCaps) :
              ~ObjHas(Persisted, mint)
        /\ \A mint \in ObjKeys(Persisted) :
              ObjGet(Persisted, mint) = ObjGet(last.currentMarketCaps, mint)
\* A save dropped one key of the old snapshot and replaced the cap of another.
C6_Witness ==
    /\ Tracked
    /\ ObjKeys(last.previousData) \ ObjKeys(last.currentMarketCaps) # {}
    /\ \E mint \in ObjKeys(last.previousData) \cap ObjKeys(last.currentMarketCaps) :
          ObjGet(last.previousData, mint) # ObjGet(last.currentMarketCaps, mint)

\* C7: after every run that got its holdings and its prices without error,
\* the run that found no token with a positive balance included, a load of
\* the (readable) snapshot file yields that run's current mapping.
C7_AlwaysSaves ==
    (last.outcome \in {"saved", "noTokens"} /\ Readable) =>
        SameMapping(Persisted, last.currentMarketCaps)

\* C8: at most one run of getAllTokenBalances is in flight.
C8_OneInFlight == Cardinality({r \in Slots : pc[r] # "idle"}) <= 1

\* The batches of the last run whose price answer gave the mint a price.
PricedIn(mint) ==
    {i \in DOMAIN last.responses :
        /\ last.responses[i].kind = "data"
        /\ mint \in SeqToSet(last.batches[i])
        /\ last.responses[i].data[mint] # NoPrice}
Latest(S) == CHOOSE i \in S : \A j \in S : j <= i

\* C9: change detection runs only once every batch of the run has been
\* answered, and the mapping it gets holds the result of every batch: a mint
\* is a key exactly when some batch priced it, with the cap of the latest
\* such batch.
C9_AllBatches ==
    last.outcome \in {"saved", "snapshotError"} =>
        /\ Len(last.responses) = Len(last.batches)
        /\ \A mint \in Mints :
              /\ ObjHas(last.currentMarketCaps, mint) <=> PricedIn(mint) # {}
              /\ PricedIn(mint) # {} =>
                    ObjGet(last.currentMarketCaps, mint)
                        = MarketCapOf(last.responses[Latest(PricedIn(mint))].data[mint])
\* Change detection got a mapping with a key from each of two batches.
C9_Witness ==
    /\ Tracked
    /\ Len(last.batches) = 2
    /\ \E m1, m2 \in Mints :
          /\ m1 # m2
          /\ PricedIn(m1) = {1}
          /\ PricedIn(m2) = {2}
          /\ ObjKeys(last.currentMarketCaps) = {m1, m2}
          /\ Len(last.sent) = 2

\* C10: a run one of whose price requests was rejected (and none of whose
\* answers lacked its data) is not aborted by it: it reaches change
\* detection, and saves unless the snapshot file is unreadable; no token of
\* the rejected batch is a key of its current mapping, and the tokens the
\* other batches priced are.
C10_BatchFailure ==
    \A i \in DOMAIN last.responses :
        (/\ last.responses[i].kind = "rejected"
         /\ \A j \in DOMAIN last.responses : last.responses[j].kind # "nodata")
        => /\ last.outcome \in {"saved", "snapshotError"}
           /\ Tracked => file = JSONstringify(last.currentMarketCaps)
           /\ \A mint \in SeqToSet(last.batches[i]) :
                 ~ObjHas(last.currentMarketCaps, mint)
           /\ \A mint \in Mints :
                 PricedIn(mint) # {} => ObjHas(last.currentMarketCaps, mint)

\* The outcomes of an invocation that reached line 145, the load of the
\* snapshot file.
Loaded == {"saved", "snapshotError", "saveError", "killed"}

\* C11: a run that reaches the load while no snapshot file exists takes the
\* previous mapping to be empty and goes on; a run that reaches the load
\* while the file exists but cannot be parsed aborts there: it sends no
\* notification and leaves the file as it was.
C11_AbsentVsCorrupt ==
    [][\A r \in Slots :
          (RunReturns(r) /\ last'.outcome \in Loaded)
          => /\ ~file.exists
                => (last'.outcome # "snapshotError" /\ last'.previousData = <<>>)
             /\ (file.exists /\ ~file.json)
                => (last'.outcome = "snapshotError" /\ last'.sent = <<>>
                    /\ file' = file)]_vars

C11_Witness ==
    /\ last.outcome = "snapshotError"
    /\ last.currentMarketCaps # <<>>
    /\ file = Garbage

\* The members of current that trackMarketCapChanges has to report against
\* previous: those previous lacks and those whose tranche differs.
Reportable(current, previous) ==
    {current[k][1] : k \in {j \in DOMAIN current :
        \/ ~ObjHas(previous, current[j][1])
        \/ getMarketCapTranche(current[j][2])
             # getMarketCapTranche(ObjGet(previous, current[j][1]))}}

\* C12: when the delivery of a notification fails, the run that sent it has
\* still sent a notification for every other token it had to report and has
\* still reached the write of the snapshot; unless that write itself failed,
\* the file holds the run's current mapping.
C12_NotifierFailure ==
    last.failed # {}
    => /\ last.outcome \in {"saved", "saveError", "killed"}
       /\ \A mint \in Reportable(last.currentMarketCaps, last.previousData) :
             SentFor(mint) # {}
       /\ last.outcome = "saved" => file = JSONstringify(last.currentMarketCaps)

C12_Witness ==
    /\ last.outcome = "saved"
    /\ 1 \in last.failed
    /\ Len(last.sent) = 2
    /\ last.sent[2].mint # last.sent[1].mint
    /\ file = JSONstringify(last.currentMarketCaps)

\* The outcomes of an invocation that an error ended: a rejected holdings
\* request, a price answer without a data member, an unparsable snapshot
\* file, a writeFileSync that threw.
Failed == {"holdingsError", "pricesError", "snapshotError", "csvError", "saveError"}

\* C13: after a run that an error ended the process is still running and
\* the cron callback can still start a run (as long as the model has an
\* invocation left to start).
C13_FailureDoesNotStopCron ==
    last.outcome \in Failed
    => /\ alive
       /\ started < MaxCycles => ENABLED (\E r \in Slots : CronTick(r))

C13_Witness ==
    /\ last.outcome = "saveError"
    /\ file = Garbage
    /\ started < MaxCycles
    /\ ENABLED (\E r \in Slots : CronTick(r))

\* C14: once a run has completed (it saved, or it found no token with a
\* positive balance), the keys of the persisted snapshot are exactly the
\* mints that this run held with a positive balance and got a price for.
C14_SnapshotKeys ==
    (last.outcome \in {"saved", "noTokens"} /\ Readable)
    => ObjKeys(Persisted) = {mint \in Mints : PricedIn(mint) # {}}

\* C15: when the process dies while a run saves the snapshot, a later load
\* of the file gets either the complete mapping the run had loaded or the
\* complete mapping it was saving, never an unparsable file.
C15_AtomicSave ==
    last.outcome = "killed"
    => /\ Readable
       /\ \/ SameMapping(Persisted, last.previousData)
          \/ SameMapping(Persisted, last.currentMarketCaps)

\* The notifications of the run that returns in this step, for one mint.
SentNextFor(mint) == {i \in DOMAIN last'.sent : last'.sent[i].mint = mint}

\* C16: a run that saves while no snapshot file exists, its mapping M1 not
\* empty, sends exactly one notification per token of M1, labelled
\* 'unbonded-bonded' with the token's cap, and leaves M1 in the file; the
\* run that saves next, its mapping M2 over the same tokens, loads M1 and
\* sends exactly one notification for each token whose tranche differs
\* between M1 and M2, labelled with the tranche of its M2 cap, and none for
\* the others.
C16_TwoRuns ==
    [][\A r \in Slots :
          (RunReturns(r) /\ last'.outcome = "saved")
          => LET M2 == last'.currentMarketCaps
                 M1 == last.currentMarketCaps
             IN  /\ (~file.exists /\ M2 # <<>>)
                    => /\ Len(last'.sent) = Len(M2)
                       /\ \A k \in DOMAIN M2 :
                             \E i \in DOMAIN last'.sent :
                                last'.sent[i] = notifyTelegram(M2[k][1],
                                                    "unbonded-bonded", M2[k][2])
                       /\ file' = JSONstringify(M2)
                 /\ (/\ last.outcome = "saved"
                     /\ file = JSONstringify(M1)
                     /\ M1 # <<>>
                     /\ ObjKeys(M2) = ObjKeys(M1))
                    => /\ last'.previousData = M1
                       /\ \A mint \in ObjKeys(M2) :
                             IF getMarketCapTranche(ObjGet(M2, mint))
                                  # getMarketCapTranche(ObjGet(M1, mint))
                             THEN /\ Cardinality(SentNextFor(mint)) = 1
                                  /\ \A i \in SentNextFor(mint) :
                                        last'.sent[i] = notifyTelegram(mint,
                                            getMarketCapTranche(ObjGet(M2, mint)),
                                            ObjGet(M2, mint))
                             ELSE SentNextFor(mint) = {}]_vars

\* The second run of the scenario has returned: A went from 50,000 to
\* 150,000, B stayed where it was.
C16_Witness ==
    /\ last.outcome = "saved"
    /\ started = 2
    /\ last.previousData = <<<<"A", 50000>>, <<"B", 450000>>>>
    /\ last.currentMarketCaps = <<<<"A", 150000>>, <<"B", 450000>>>>
    /\ last.sent = <<notifyTelegram("A", "0-100k", 150000)>>
    /\ file = JSONstringify(last.currentMarketCaps)

\* The mints the last run held with a positive balance, and the mints of
\* the bondedCoins and unbondedCoins lists it wrote out at lines 74-75.
HeldMints == UNION {SeqToSet(last.batches[i]) : i \in DOMAIN last.batches}
BondedMints == {csvBonded.rows[i][1] : i \in DOMAIN csvBonded.rows}
UnbondedMints == {csvUnbonded.rows[i][1] : i \in DOMAIN csvUnbonded.rows}

\* C17: in a run that reaches change detection every held mint is in
\* exactly one of bondedCoins and unbondedCoins, the keys of the current
\* mapping are the mints of bondedCoins, and each key's cap is a price the
\* run got for it times 1,000,000,000.
C17_Partition ==
    last.outcome \in {"saved", "snapshotError"}
    => /\ \A mint \in HeldMints :
             (mint \in BondedMints) # (mint \in UnbondedMints)
       /\ ObjKeys(last.currentMarketCaps) = BondedMints
       /\ \A mint \in ObjKeys(last.currentMarketCaps) :
             \E i \in PricedIn(mint) :
                ObjGet(last.currentMarketCaps, mint)
                  = MarketCapOf(last.responses[i].data[mint])

\* C18: a run that saves while it holds a mint of the loaded mapping
\* without a price for it leaves the snapshot without that mint; and a run
\* that saves a mint which the save before the last one replaced (the
\* mapping held it, the next one dropped it) sends an 'unbonded-bonded'
\* notification for it, whatever its cap.
C18_PartialSnapshot ==
    Tracked
    => \A mint \in Mints :
          /\ (/\ ObjHas(last.previousData, mint)
              /\ mint \in HeldMints
              /\ PricedIn(mint) = {})
             => (Readable /\ ~ObjHas(Persisted, mint))
          /\ (/\ ObjHas(last.before, mint)
              /\ ~ObjHas(last.previousData, mint)
              /\ ObjHas(last.currentMarketCaps, mint))
             => \E i \in SentFor(mint) :
                   last.sent[i] = notifyTelegram(mint, "unbonded-bonded",
                                      ObjGet(last.currentMarketCaps, mint))

\* Run n+2 has saved A at the cap run n had saved it with, run n+1 having
\* dropped it.
C18_Witness ==
    /\ Tracked
    /\ ObjHas(last.before, "A")
    /\ ~ObjHas(last.previousData, "A")
    /\ ObjHas(last.currentMarketCaps, "A")
    /\ ObjGet(last.currentMarketCaps, "A") = ObjGet(last.before, "A")
    /\ \E i \in SentFor("A") : last.sent[i].tranche = "unbonded-bonded"
    /\ file = JSONstringify(last.currentMarketCaps)

\* C19: the step in which a run saves is the step in which it loads: the
\* mapping it compares with is the one the file holds when the step begins,
\* which the save before it wrote, and the step leaves the run's own
\* mapping in the file; the file changes only in a step in which exactly one
\* run returns, whatever other run is in flight.
C19_AtomicTrack ==
    [][/\ \A r \in Slots :
             (RunReturns(r) /\ last'.outcome = "saved")
             => /\ Readable
                /\ last'.previousData = Persisted
                /\ file' = JSONstringify(last'.currentMarketCaps)
       /\ file' # file => Cardinality({r \in Slots : RunReturns(r)}) = 1]_vars

\* A run has loaded, compared and saved while the other run was between
\* two of its price requests.
C19_Witness ==
    /\ Tracked
    /\ last.currentMarketCaps # <<>>
    /\ file = JSONstringify(last.currentMarketCaps)
    /\ \E q \in Slots : pc[q] = "awaitPrices" /\ batchIndex[q] = 2

\* C20: the step in which a run's holdings request is rejected ends the
\* run with no notification sent and the snapshot file, like the two CSV
\* files, as it was, so that the next run loads what it would have loaded
\* without the failed run.
C20_HoldingsFailure ==
    [][\A r \in Slots :
          (pc[r] = "awaitHoldings" /\ pc'[r] = "idle"
           /\ last'.outcome = "holdingsError")
          => /\ last'.sent = <<>>
             /\ file' = file
             /\ csvBonded' = csvBonded
             /\ csvUnbonded' = csvUnbonded]_vars

\* A run failed on its holdings request after another run had saved a
\* mapping, which the file still holds.
C20_Witness ==
    /\ last.outcome = "holdingsError"
    /\ started = 2
    /\ file.exists /\ file.json /\ file.members # <<>>
    /\ \A r \in Slots : pc[r] = "idle"

====
